---- MODULE Spec2Model ----
(***************************************************************************)
(* Day 8 "Playground": the disjoint-set structure (DisjointSet) and the    *)
(* two drivers part1 / part2 of src/day08/day08.py.                        *)
(*                                                                         *)
(* Indices are 0-based as in the Python lists; a list of length n is a     *)
(* function with domain 0..n-1, except `distances` and `coordinates`,      *)
(* which are TLA+ sequences (position p of the sequence is list index p-1).*)
(***************************************************************************)
EXTENDS Integers, Sequences, FiniteSets, TLC

VARIABLES
    parent,       \* DisjointSet.parent
    rank,         \* DisjointSet.rank
    size,         \* DisjointSet.size
    lastCall,     \* the last DisjointSet method call: name, arguments, return value
    merges,       \* history: number of union calls that returned True
    data,         \* parse_coordinates: the raw input, a sequence of characters
    coordinates,  \* part1/part2: the parsed points
    distances,    \* part1/part2: the list of (dist, i, j), sorted once ranked
    cursor,       \* part1/part2: position in distances of the next loop iteration
    attempts,     \* part1: attempts
    circuits,     \* part2: circuits
    applied,      \* history: the (x, y) of every union call of the driver, in order
    result,       \* what the function returned or raised
    pc            \* position of the running function

dsVars == <<parent, rank, size>>
driverVars == <<data, coordinates, distances, cursor, attempts, circuits, applied, result>>
vars == <<parent, rank, size, lastCall, merges, data, coordinates, distances, cursor,
          attempts, circuits, applied, result, pc>>

(* Bounds of the model *)
MaxElems == 4          \* largest n of a DisjointSet driven by arbitrary calls
MaxSmall == 5          \* part1: largest small cluster of points
BigCluster == 46       \* part1: a cluster with more than K pairs
MaxOutliers == 4       \* part1: points placed far from the cluster
MaxPoints == 4         \* part2: largest number of points
MaxX == 2              \* part2: the points lie at x = -1..MaxX of the x-axis
MaxData == 7           \* parse_coordinates: longest input text
FracBits == 8          \* binary places kept of a float square root

(* The attempt threshold of part1 *)
K == 1000

NoCall == [op |-> "none", x |-> 0, y |-> 0, merged |-> FALSE, root |-> 0]
NoResult == [kind |-> "running", value |-> 0]
Return(v) == [kind |-> "return", value |-> v]
Raise(e) == [kind |-> e, value |-> 0]

UnionCall(x, y, ret) == [op |-> "union", x |-> x, y |-> y, merged |-> ret, root |-> 0]
FindCall(x, ret) == [op |-> "find", x |-> x, y |-> x, merged |-> FALSE, root |-> ret]

Indices(p) == DOMAIN p

(***************************************************************************)
(* DisjointSet.__init__                                                    *)
(***************************************************************************)
DisjointSetInit(n) ==
    [parent |-> [i \in 0..(n-1) |-> i],
     rank   |-> [i \in 0..(n-1) |-> 0],
     size   |-> [i \in 0..(n-1) |-> 1]]

\* find returning the parent it read before compressing
RECURSIVE find_StaleReturn(_, _)
find_StaleReturn(p, x) ==
    IF p[x] # x
    THEN LET r == find_StaleReturn(p, p[x])
         IN  [parent |-> [r.parent EXCEPT ![x] = r.ret], ret |-> p[x]]
    ELSE [parent |-> p, ret |-> p[x]]

(***************************************************************************)
(* DisjointSet.find: returns the root and the parent list after the        *)
(* recursive path compression.                                             *)
(***************************************************************************)
RECURSIVE find(_, _)
find(p, x) ==
    IF p[x] # x
    THEN LET r == find(p, p[x])
         IN  [parent |-> [r.parent EXCEPT ![x] = r.ret], ret |-> r.ret]
    ELSE [parent |-> p, ret |-> p[x]]

\* union without "self.size[root_x] += self.size[root_y]"
union_NoSizeUpdate(ds, x, y) ==
    LET fx == find(ds.parent, x)
        fy == find(fx.parent, y)
        swap == ds.rank[fx.ret] < ds.rank[fy.ret]
        rx == IF swap THEN fy.ret ELSE fx.ret
        ry == IF swap THEN fx.ret ELSE fy.ret
    IN  IF fx.ret = fy.ret
        THEN [parent |-> fy.parent, rank |-> ds.rank, size |-> ds.size, ret |-> FALSE]
        ELSE [parent |-> [fy.parent EXCEPT ![ry] = rx],
              rank   |-> IF ds.rank[rx] = ds.rank[ry]
                         THEN [ds.rank EXCEPT ![rx] = ds.rank[rx] + 1] ELSE ds.rank,
              size   |-> ds.size,
              ret    |-> TRUE]

\* union linking x and y themselves instead of their roots
union_NoFind(ds, x, y) ==
    LET swap == ds.rank[x] < ds.rank[y]
        rx == IF swap THEN y ELSE x
        ry == IF swap THEN x ELSE y
    IN  IF x = y
        THEN [parent |-> ds.parent, rank |-> ds.rank, size |-> ds.size, ret |-> FALSE]
        ELSE [parent |-> [ds.parent EXCEPT ![ry] = rx],
              rank   |-> IF ds.rank[rx] = ds.rank[ry]
                         THEN [ds.rank EXCEPT ![rx] = ds.rank[rx] + 1] ELSE ds.rank,
              size   |-> [ds.size EXCEPT ![rx] = ds.size[rx] + ds.size[ry]],
              ret    |-> TRUE]

\* union without the "if root_x == root_y: return False"
union_NoEarlyReturn(ds, x, y) ==
    LET fx == find(ds.parent, x)
        fy == find(fx.parent, y)
        swap == ds.rank[fx.ret] < ds.rank[fy.ret]
        rx == IF swap THEN fy.ret ELSE fx.ret
        ry == IF swap THEN fx.ret ELSE fy.ret
    IN  [parent |-> [fy.parent EXCEPT ![ry] = rx],
         rank   |-> IF ds.rank[rx] = ds.rank[ry]
                    THEN [ds.rank EXCEPT ![rx] = ds.rank[rx] + 1] ELSE ds.rank,
         size   |-> [ds.size EXCEPT ![rx] = ds.size[rx] + ds.size[ry]],
         ret    |-> TRUE]

\* union with the rank test as "if self.rank[root_x] > self.rank[root_y]"
union_RankSwapped(ds, x, y) ==
    LET fx == find(ds.parent, x)
        fy == find(fx.parent, y)
        swap == ds.rank[fx.ret] > ds.rank[fy.ret]
        rx == IF swap THEN fy.ret ELSE fx.ret
        ry == IF swap THEN fx.ret ELSE fy.ret
    IN  IF fx.ret = fy.ret
        THEN [parent |-> fy.parent, rank |-> ds.rank, size |-> ds.size, ret |-> FALSE]
        ELSE [parent |-> [fy.parent EXCEPT ![ry] = rx],
              rank   |-> IF ds.rank[rx] = ds.rank[ry]
                         THEN [ds.rank EXCEPT ![rx] = ds.rank[rx] + 1] ELSE ds.rank,
              size   |-> [ds.size EXCEPT ![rx] = ds.size[rx] + ds.size[ry]],
              ret    |-> TRUE]

\* union without "self.rank[root_x] += 1"
union_NoRankIncrement(ds, x, y) ==
    LET fx == find(ds.parent, x)
        fy == find(fx.parent, y)
        swap == ds.rank[fx.ret] < ds.rank[fy.ret]
        rx == IF swap THEN fy.ret ELSE fx.ret
        ry == IF swap THEN fx.ret ELSE fy.ret
    IN  IF fx.ret = fy.ret
        THEN [parent |-> fy.parent, rank |-> ds.rank, size |-> ds.size, ret |-> FALSE]
        ELSE [parent |-> [fy.parent EXCEPT ![ry] = rx],
              rank   |-> ds.rank,
              size   |-> [ds.size EXCEPT ![rx] = ds.size[rx] + ds.size[ry]],
              ret    |-> TRUE]

\* union with the size update as "self.size[root_y] += self.size[root_x]"
union_SizeToAbsorbed(ds, x, y) ==
    LET fx == find(ds.parent, x)
        fy == find(fx.parent, y)
        swap == ds.rank[fx.ret] < ds.rank[fy.ret]
        rx == IF swap THEN fy.ret ELSE fx.ret
        ry == IF swap THEN fx.ret ELSE fy.ret
    IN  IF fx.ret = fy.ret
        THEN [parent |-> fy.parent, rank |-> ds.rank, size |-> ds.size, ret |-> FALSE]
        ELSE [parent |-> [fy.parent EXCEPT ![ry] = rx],
              rank   |-> IF ds.rank[rx] = ds.rank[ry]
                         THEN [ds.rank EXCEPT ![rx] = ds.rank[rx] + 1] ELSE ds.rank,
              size   |-> [ds.size EXCEPT ![ry] = ds.size[ry] + ds.size[rx]],
              ret    |-> TRUE]

(***************************************************************************)
(* DisjointSet.union on the object ds = [parent, rank, size]; returns the  *)
(* object after the call and the returned boolean.                         *)
(***************************************************************************)
union(ds, x, y) ==
    LET fx     == find(ds.parent, x)
        fy     == find(fx.parent, y)
        p      == fy.parent
        root_x == fx.ret
        root_y == fy.ret
        swap   == ds.rank[root_x] < ds.rank[root_y]
        rx     == IF swap THEN root_y ELSE root_x
        ry     == IF swap THEN root_x ELSE root_y
        sz     == [ds.size EXCEPT ![rx] = ds.size[rx] + ds.size[ry]]
        rk     == IF ds.rank[rx] = ds.rank[ry]
                  THEN [ds.rank EXCEPT ![rx] = ds.rank[rx] + 1]
                  ELSE ds.rank
    IN  IF root_x = root_y
        THEN [parent |-> p, rank |-> ds.rank, size |-> ds.size, ret |-> FALSE]
        ELSE [parent |-> [p EXCEPT ![ry] = rx], rank |-> rk, size |-> sz, ret |-> TRUE]

DS == [parent |-> parent, rank |-> rank, size |-> size]

(***************************************************************************)
(* A client calling the DisjointSet methods in any order.                  *)
(***************************************************************************)
InitDS ==
    /\ \E n \in 1..MaxElems :
          LET d == DisjointSetInit(n)
          IN  parent = d.parent /\ rank = d.rank /\ size = d.size
    /\ lastCall = NoCall
    /\ merges = 0
    /\ data = << >>
    /\ coordinates = << >>
    /\ distances = << >>
    /\ cursor = 1
    /\ attempts = 0
    /\ circuits = 0
    /\ applied = << >>
    /\ result = NoResult
    /\ pc = "ds"

CallUnion ==
    /\ pc = "ds"
    /\ \E x \in Indices(parent), y \in Indices(parent) :
          LET u == union(DS, x, y)
          IN  /\ parent' = u.parent
              /\ rank' = u.rank
              /\ size' = u.size
              /\ lastCall' = UnionCall(x, y, u.ret)
              /\ merges' = IF u.ret THEN merges + 1 ELSE merges
    /\ UNCHANGED <<driverVars, pc>>

CallFind ==
    /\ pc = "ds"
    /\ \E x \in Indices(parent) :
          LET f == find(parent, x)
          IN  /\ parent' = f.parent
              /\ lastCall' = FindCall(x, f.ret)
    /\ UNCHANGED <<rank, size, merges, driverVars, pc>>

NextDS == CallUnion \/ CallFind

SpecDS == InitDS /\ [][NextDS]_vars

(***************************************************************************)
(* Properties of the DisjointSet (checked under SpecDS)                    *)
(***************************************************************************)
Roots(p) == {r \in DOMAIN p : p[r] = r}

RECURSIVE SumOver(_, _)
SumOver(f, S) ==
    IF S = {} THEN 0
    ELSE LET e == CHOOSE e \in S : TRUE IN f[e] + SumOver(f, S \ {e})

\* the index reached from i after at most k parent steps, stopping at a root
RECURSIVE Climb(_, _, _)
Climb(p, i, k) == IF k = 0 \/ p[i] = i THEN i ELSE Climb(p, p[i], k - 1)

\* the root of i, when the parent chain of i ends at one
RootOf(p, i) == Climb(p, i, Cardinality(DOMAIN p))

\* C1: the sizes recorded at the current roots add up to n.
C1_SizeSum == SumOver(size, Roots(parent)) = Cardinality(DOMAIN parent)

C1_Witness ==
    /\ merges >= 2
    /\ lastCall.op = "find"
    /\ \E i \in DOMAIN parent : parent[i] # i /\ parent[parent[i]] # parent[i]

\* C2: from every index the parent pointers reach a root within n steps, so
\* the parent relation has no cycle but the self-loops of the roots.
C2_ReachesRoot ==
    \A i \in DOMAIN parent : parent[RootOf(parent, i)] = RootOf(parent, i)

C2_Witness ==
    /\ lastCall.op = "union"
    /\ \E i \in DOMAIN parent : parent[i] # i /\ parent[parent[i]] # parent[i]

\* the step is a call union(x, y) made when x and y have the same root
SameRootUnionStep ==
    /\ lastCall'.op = "union"
    /\ RootOf(parent, lastCall'.x) = RootOf(parent, lastCall'.y)

\* C3 as stated: union(x, y) called with find(x) = find(y) returns False and
\* leaves parent, rank and size as they were.
C3_NoMutation ==
    [][SameRootUnionStep =>
          /\ ~lastCall'.merged
          /\ parent' = parent /\ rank' = rank /\ size' = size]_vars

\* C3 amended: union(x, y) called with find(x) = find(y) returns False, leaves
\* rank and size as they were and every index with the root it had; an entry
\* of parent either stays or is re-pointed to the root of its index.
C3_NoPartitionChange ==
    [][SameRootUnionStep =>
          /\ ~lastCall'.merged
          /\ rank' = rank /\ size' = size
          /\ \A i \in DOMAIN parent :
                /\ RootOf(parent', i) = RootOf(parent, i)
                /\ parent'[i] \in {parent[i], RootOf(parent, i)}]_vars

C3_Witness ==
    /\ pc = "ds"
    /\ merges >= 3
    /\ lastCall.op = "union" /\ ~lastCall.merged /\ lastCall.x # lastCall.y
    /\ parent[lastCall.x] # lastCall.x /\ parent[lastCall.y] # lastCall.y

\* C11: a call find(x) returns the root of x and leaves rank, size and the
\* root of every index as they were; a second find(x) right after it returns
\* the same root and changes no entry of parent.
C11_FindIdempotent ==
    [][lastCall'.op = "find" =>
          LET x      == lastCall'.x
              second == find(parent', x)
          IN  /\ lastCall'.root = RootOf(parent, x)
              /\ second.ret = lastCall'.root
              /\ second.parent = parent'
              /\ rank' = rank /\ size' = size
              /\ \A y \in DOMAIN parent :
                    /\ RootOf(parent', y) = RootOf(parent, y)
                    /\ find(parent', y).ret = find(parent, y).ret]_vars

\* a find(x) has just flattened a tree of rank 2: x and a node of rank 1
\* both hang directly under the root
C11_Witness ==
    /\ pc = "ds"
    /\ lastCall.op = "find"
    /\ lastCall.root # lastCall.x
    /\ rank[lastCall.root] = 2 /\ rank[lastCall.x] = 0
    /\ \A i \in DOMAIN parent : parent[i] = lastCall.root

\* the step is a call union(x, y) made when x and y have different roots
MergingUnionStep ==
    /\ lastCall'.op = "union"
    /\ RootOf(parent, lastCall'.x) # RootOf(parent, lastCall'.y)

\* C14: a union(x, y) of two components returns True, puts the root of lower
\* rank under the root of higher rank (y's root under x's root on equal
\* ranks), adds the absorbed root's size to the surviving root's, raises the
\* surviving root's rank by one only on equal ranks, and changes no other
\* entry of rank or size.
C14_UnionByRank ==
    [][MergingUnionStep =>
          LET a == RootOf(parent, lastCall'.x)
              b == RootOf(parent, lastCall'.y)
              w == IF rank[a] < rank[b] THEN b ELSE a
              l == IF rank[a] < rank[b] THEN a ELSE b
          IN  /\ lastCall'.merged
              /\ parent'[l] = w /\ parent'[w] = w
              /\ size' = [size EXCEPT ![w] = size[a] + size[b]]
              /\ rank' = IF rank[a] = rank[b]
                         THEN [rank EXCEPT ![w] = rank[w] + 1]
                         ELSE rank]_vars

\* union(x, y) has just put the singleton x under y, the root of a pair
C14_Witness ==
    /\ pc = "ds"
    /\ lastCall.op = "union" /\ lastCall.merged
    /\ parent[lastCall.y] = lastCall.y
    /\ parent[lastCall.x] = lastCall.y
    /\ size[lastCall.y] = 3 /\ rank[lastCall.y] = 1

\* the number of parent steps from i to its root
RECURSIVE Depth(_, _, _)
Depth(p, i, k) == IF k = 0 \/ p[i] = i THEN 0 ELSE 1 + Depth(p, p[i], k - 1)

\* C15: the rank of a parent exceeds the rank of its child, the parent steps
\* from an index to its root are at most the root's rank, and a root of rank
\* k has size at least 2^k.
C15_RankBounds ==
    /\ \A x \in DOMAIN parent : parent[x] # x => rank[parent[x]] > rank[x]
    /\ \A x \in DOMAIN parent :
          Depth(parent, x, Cardinality(DOMAIN parent)) <= rank[RootOf(parent, x)]
    /\ \A r \in Roots(parent) : size[r] >= 2 ^ rank[r]

C15_Witness ==
    /\ pc = "ds"
    /\ \E x \in DOMAIN parent :
          /\ Depth(parent, x, Cardinality(DOMAIN parent)) = 2
          /\ rank[RootOf(parent, x)] = 2
          /\ size[RootOf(parent, x)] = 4

(***************************************************************************)
(* euclidean_distance: the float (d2) ** 0.5.  The float is kept as the    *)
(* square root to FracBits binary places, rounded down: a fixed-point      *)
(* number, stored as the integer floor(sqrt(d2) * 2^FracBits).  A double   *)
(* keeps 53 significant bits, which tell the square roots of any two       *)
(* different integers below 2^52 apart; FracBits places do the same for    *)
(* the radicands of this model (SqrtExactEnough).                          *)
(***************************************************************************)
RECURSIVE SqrtSearch(_, _, _)
SqrtSearch(v, lo, hi) ==
    \* the largest r in lo..hi with r*r <= v, given lo*lo <= v
    IF lo = hi THEN lo
    ELSE LET mid == (lo + hi + 1) \div 2
         IN  IF mid * mid <= v THEN SqrtSearch(v, mid, hi)
                               ELSE SqrtSearch(v, lo, mid - 1)

FloatSqrt(v) == SqrtSearch(v * (4 ^ FracBits), 0, 46340)

SquaredDistance(p1, p2) ==
    (p1[1] - p2[1])^2 + (p1[2] - p2[2])^2 + (p1[3] - p2[3])^2

euclidean_distance(p1, p2) == FloatSqrt(SquaredDistance(p1, p2))

\* the roots kept of the radicands that occur order the pairs as the
\* radicands do
SqrtExactEnough ==
    cursor = 1 => \A a, b \in 1..Len(distances) :
        LET ra == SquaredDistance(coordinates[distances[a][2] + 1],
                                  coordinates[distances[a][3] + 1])
            rb == SquaredDistance(coordinates[distances[b][2] + 1],
                                  coordinates[distances[b][3] + 1])
        IN  (ra < rb) <=> (distances[a][1] < distances[b][1])

\* Python's order on the tuples (dist, i, j)
TupleLess(a, b) ==
    \/ a[1] < b[1]
    \/ a[1] = b[1] /\ a[2] < b[2]
    \/ a[1] = b[1] /\ a[2] = b[2] /\ a[3] < b[3]

\* a sorts before b: "tuples" for distances.sort(), "reverse" for
\* circuit_sizes.sort(reverse=True), "ints" for a sort() of integers
Before(order, a, b) ==
    CASE order = "tuples"  -> TupleLess(a, b)
      [] order = "reverse" -> a > b
      [] order = "ints"    -> a < b

(***************************************************************************)
(* list.sort(): a stable sort in the order Before.  Position k of the      *)
(* input goes to the place counted by the elements that sort before it.    *)
(***************************************************************************)
SortBy(seq, order) ==
    LET m   == Len(seq)
        pos == [k \in 1..m |->
                  1 + Cardinality({l \in 1..m :
                        Before(order, seq[l], seq[k])
                        \/ (~Before(order, seq[k], seq[l]) /\ l < k)})] \o << >>
        inv == [q \in 1..m |-> CHOOSE k \in 1..m : pos[k] = q] \o << >>
    IN  [q \in 1..m |-> seq[inv[q]]] \o << >>

(***************************************************************************)
(* "Compute all pairwise distances": the nested loops over i and j > i,    *)
(* appending (dist, i, j); coords[i+1] is coordinates[i].                  *)
(***************************************************************************)
\* the inner loop as "for j in range(i, n)"
RECURSIVE PairwiseFrom_FromI(_, _)
PairwiseFrom_FromI(coords, i) ==
    LET n == Len(coords)
    IN  IF i >= n THEN << >>
        ELSE [k \in 1..(n - i) |->
                <<euclidean_distance(coords[i + 1], coords[i + k]), i, i + k - 1>>]
             \o PairwiseFrom_FromI(coords, i + 1)

RECURSIVE PairwiseFrom(_, _)
PairwiseFrom(coords, i) ==
    LET n == Len(coords)
    IN  IF i >= n THEN << >>
        ELSE [k \in 1..(n - 1 - i) |->
                <<euclidean_distance(coords[i + 1], coords[i + k + 1]), i, i + k>>]
             \o PairwiseFrom(coords, i + 1)

PairwiseDistances(coords) == PairwiseFrom(coords, 0)

\* distances after distances.sort()
RankedDistances(coords) == SortBy(PairwiseDistances(coords), "tuples")

(***************************************************************************)
(* part1, lines 139-145: the sizes of the roots, found with find(i) for    *)
(* i = 0..n-1 in turn (each find compresses), sorted descending, and the   *)
(* product of the first three.                                             *)
(***************************************************************************)
\* the comprehension without "if disjoint_set.find(i) == i"
RECURSIVE CircuitSizes_AllIndices(_, _, _)
CircuitSizes_AllIndices(p, sz, i) ==
    IF i \notin DOMAIN p THEN [parent |-> p, sizes |-> << >>]
    ELSE LET rest == CircuitSizes_AllIndices(p, sz, i + 1)
         IN  [parent |-> rest.parent, sizes |-> <<sz[i]>> \o rest.sizes]

RECURSIVE CircuitSizes(_, _, _)
CircuitSizes(p, sz, i) ==
    IF i \notin DOMAIN p THEN [parent |-> p, sizes |-> << >>]
    ELSE LET f    == find(p, i)
             rest == CircuitSizes(f.parent, sz, i + 1)
         IN  [parent |-> rest.parent,
              sizes  |-> IF f.ret = i THEN <<sz[i]>> \o rest.sizes ELSE rest.sizes]

\* the product as math.prod(circuit_sizes[:3])
RECURSIVE ProductOf(_)
ProductOf(q) == IF q = << >> THEN 1 ELSE Head(q) * ProductOf(Tail(q))

\* the sort without reverse=True
ProductOfThreeLargest_Ascending(sizes) ==
    LET circuit_sizes == SortBy(sizes, "ints")
    IN  IF Len(circuit_sizes) < 3
        THEN Raise("IndexError")
        ELSE Return(circuit_sizes[1] * circuit_sizes[2] * circuit_sizes[3])

ProductOfThreeLargest_Slice(sizes) ==
    LET circuit_sizes == SortBy(sizes, "reverse")
    IN  Return(ProductOf(SubSeq(circuit_sizes, 1,
                                IF Len(circuit_sizes) < 3 THEN Len(circuit_sizes) ELSE 3)))

ProductOfThreeLargest(sizes) ==
    LET circuit_sizes == SortBy(sizes, "reverse")
    IN  IF Len(circuit_sizes) < 3
        THEN Raise("IndexError")
        ELSE Return(circuit_sizes[1] * circuit_sizes[2] * circuit_sizes[3])

(***************************************************************************)
(* part1                                                                   *)
(***************************************************************************)
\* lines 116-131: parse, rank the pairs, build the DisjointSet
P1Rank ==
    /\ pc = "p1_rank"
    /\ distances' = RankedDistances(coordinates)
    /\ LET d == DisjointSetInit(Len(coordinates))
       IN  parent' = d.parent /\ rank' = d.rank /\ size' = d.size
    /\ attempts' = 0
    /\ cursor' = 1
    /\ pc' = "p1_loop"
    /\ UNCHANGED <<lastCall, merges, data, coordinates, circuits, applied, result>>

\* the loop counting only the calls that merged
P1Attempt_CountMerges ==
    /\ pc = "p1_loop"
    /\ cursor <= Len(distances)
    /\ LET x == distances[cursor][2]
           y == distances[cursor][3]
           u == union(DS, x, y)
       IN  /\ parent' = u.parent
           /\ rank' = u.rank
           /\ size' = u.size
           /\ lastCall' = UnionCall(x, y, u.ret)
           /\ merges' = IF u.ret THEN merges + 1 ELSE merges
           /\ applied' = Append(applied, <<x, y>>)
           /\ attempts' = IF u.ret THEN attempts + 1 ELSE attempts
    /\ cursor' = cursor + 1
    /\ pc' = IF attempts' = K THEN "p1_sizes" ELSE "p1_loop"
    /\ UNCHANGED <<data, coordinates, distances, circuits, result>>

\* lines 133-137: one iteration of the loop over distances
P1Attempt ==
    /\ pc = "p1_loop"
    /\ cursor <= Len(distances)
    /\ LET x == distances[cursor][2]
           y == distances[cursor][3]
           u == union(DS, x, y)
       IN  /\ parent' = u.parent
           /\ rank' = u.rank
           /\ size' = u.size
           /\ lastCall' = UnionCall(x, y, u.ret)
           /\ merges' = IF u.ret THEN merges + 1 ELSE merges
           /\ applied' = Append(applied, <<x, y>>)
    /\ attempts' = attempts + 1
    /\ cursor' = cursor + 1
    /\ pc' = IF attempts' = K THEN "p1_sizes" ELSE "p1_loop"
    /\ UNCHANGED <<data, coordinates, distances, circuits, result>>

\* line 133: the loop ends when distances is exhausted
P1Exhausted ==
    /\ pc = "p1_loop"
    /\ cursor > Len(distances)
    /\ pc' = "p1_sizes"
    /\ UNCHANGED <<dsVars, lastCall, merges, driverVars>>

\* lines 139-145
P1Sizes ==
    /\ pc = "p1_sizes"
    /\ LET c == CircuitSizes(parent, size, 0)
       IN  /\ parent' = c.parent
           /\ result' = ProductOfThreeLargest(c.sizes)
    /\ pc' = "done"
    /\ UNCHANGED <<rank, size, lastCall, merges, data, coordinates, distances, cursor,
                   attempts, circuits, applied>>

(***************************************************************************)
(* part2                                                                   *)
(***************************************************************************)
\* lines 161-176
P2Rank ==
    /\ pc = "p2_rank"
    /\ distances' = RankedDistances(coordinates)
    /\ LET d == DisjointSetInit(Len(coordinates))
       IN  parent' = d.parent /\ rank' = d.rank /\ size' = d.size
    /\ circuits' = Len(coordinates)
    /\ cursor' = 1
    /\ pc' = "p2_loop"
    /\ UNCHANGED <<lastCall, merges, data, coordinates, attempts, applied, result>>

\* the loop decrementing circuits on every call
P2Connect_CountCalls ==
    /\ pc = "p2_loop"
    /\ cursor <= Len(distances)
    /\ LET x == distances[cursor][2]
           y == distances[cursor][3]
           u == union(DS, x, y)
           c == circuits - 1
       IN  /\ parent' = u.parent
           /\ rank' = u.rank
           /\ size' = u.size
           /\ lastCall' = UnionCall(x, y, u.ret)
           /\ merges' = IF u.ret THEN merges + 1 ELSE merges
           /\ applied' = Append(applied, <<x, y>>)
           /\ circuits' = c
           /\ IF c = 1
              THEN /\ result' = Return(coordinates[x + 1][1] * coordinates[y + 1][1])
                   /\ pc' = "done"
              ELSE /\ result' = result
                   /\ pc' = "p2_loop"
    /\ cursor' = cursor + 1
    /\ UNCHANGED <<data, coordinates, distances, attempts>>

\* the loop stopping at "if circuits == 0"
P2Connect_StopAtZero ==
    /\ pc = "p2_loop"
    /\ cursor <= Len(distances)
    /\ LET x == distances[cursor][2]
           y == distances[cursor][3]
           u == union(DS, x, y)
           c == IF u.ret THEN circuits - 1 ELSE circuits
       IN  /\ parent' = u.parent
           /\ rank' = u.rank
           /\ size' = u.size
           /\ lastCall' = UnionCall(x, y, u.ret)
           /\ merges' = IF u.ret THEN merges + 1 ELSE merges
           /\ applied' = Append(applied, <<x, y>>)
           /\ circuits' = c
           /\ IF u.ret /\ c = 0
              THEN /\ result' = Return(coordinates[x + 1][1] * coordinates[y + 1][1])
                   /\ pc' = "done"
              ELSE /\ result' = result
                   /\ pc' = "p2_loop"
    /\ cursor' = cursor + 1
    /\ UNCHANGED <<data, coordinates, distances, attempts>>

\* lines 178-184: one iteration of the loop over distances
P2Connect ==
    /\ pc = "p2_loop"
    /\ cursor <= Len(distances)
    /\ LET x == distances[cursor][2]
           y == distances[cursor][3]
           u == union(DS, x, y)
           c == IF u.ret THEN circuits - 1 ELSE circuits
       IN  /\ parent' = u.parent
           /\ rank' = u.rank
           /\ size' = u.size
           /\ lastCall' = UnionCall(x, y, u.ret)
           /\ merges' = IF u.ret THEN merges + 1 ELSE merges
           /\ applied' = Append(applied, <<x, y>>)
           /\ circuits' = c
           /\ IF u.ret /\ c = 1
              THEN /\ result' = Return(coordinates[x + 1][1] * coordinates[y + 1][1])
                   /\ pc' = "done"
              ELSE /\ result' = result
                   /\ pc' = "p2_loop"
    /\ cursor' = cursor + 1
    /\ UNCHANGED <<data, coordinates, distances, attempts>>

\* line 186: return -1
P2Exhausted ==
    /\ pc = "p2_loop"
    /\ cursor > Len(distances)
    /\ result' = Return(-1)
    /\ pc' = "done"
    /\ UNCHANGED <<dsVars, lastCall, merges, data, coordinates, distances, cursor,
                   attempts, circuits, applied>>

(***************************************************************************)
(* The inputs of part1: a cluster of c points laid out on a line, on a     *)
(* grid or at doubling gaps, and o points far from it.                     *)
(***************************************************************************)
Far == 50              \* distance of the outliers from the cluster
GridWidth == 7         \* points per row of the grid layout

ClusterPoint(layout, i) ==
    CASE layout = "line"   -> <<i, 0, 0>>
      [] layout = "grid"   -> <<i % GridWidth, i \div GridWidth, 0>>
      [] layout = "spread" -> <<(2 ^ i) - 1, 0, 0>>

Outlier(k) ==
    CASE k = 1 -> <<0, 0, Far>>
      [] k = 2 -> <<0, Far, 0>>
      [] k = 3 -> <<0, Far + 1, 0>>
      [] OTHER -> <<Far, Far + (k - 4), 0>>

Cluster(layout, c, o) ==
    [i \in 1..c |-> ClusterPoint(layout, i - 1)] \o [k \in 1..o |-> Outlier(k)]

Layouts(c) == IF c <= MaxSmall THEN {"line", "grid", "spread"} ELSE {"line", "grid"}

DriverInit(coords, start) ==
    /\ data = << >>
    /\ coordinates = coords
    /\ LET d == DisjointSetInit(0)
       IN  parent = d.parent /\ rank = d.rank /\ size = d.size
    /\ lastCall = NoCall
    /\ merges = 0
    /\ distances = << >>
    /\ cursor = 1
    /\ attempts = 0
    /\ circuits = 0
    /\ applied = << >>
    /\ result = NoResult
    /\ pc = start

InitA ==
    \E c \in (0..MaxSmall) \cup {BigCluster}, o \in 0..MaxOutliers :
        \E layout \in Layouts(c) : DriverInit(Cluster(layout, c, o), "p1_rank")

NextA == P1Rank \/ P1Attempt \/ P1Exhausted \/ P1Sizes

SpecA == InitA /\ [][NextA]_vars

(***************************************************************************)
(* The inputs of part2: up to MaxPoints points of a stretch of the x-axis, *)
(* in any order and with repetitions.                                      *)
(***************************************************************************)
Box == {<<x, 0, 0>> : x \in (-1)..MaxX}

RECURSIVE PointLists(_)
PointLists(n) ==
    IF n = 0 THEN {<< >>}
    ELSE {Append(l, p) : l \in PointLists(n - 1), p \in Box}

InitB ==
    \E n \in 0..MaxPoints : \E coords \in PointLists(n) : DriverInit(coords, "p2_rank")

NextB == P2Rank \/ P2Connect \/ P2Exhausted

SpecB == InitB /\ [][NextB]_vars

(***************************************************************************)
(* The DisjointSet under both kinds of caller: a client calling union and  *)
(* find in any order, and part2.                                           *)
(***************************************************************************)
InitDSB == InitDS \/ InitB

NextDSB == NextDS \/ NextB

SpecDSB == InitDSB /\ [][NextDSB]_vars

(***************************************************************************)
(* The graph of the points and a list of edges (x, y), for the properties  *)
(* of part1 and part2: components by reachability, not by the DisjointSet. *)
(***************************************************************************)
Points == 0..(Len(coordinates) - 1)

RECURSIVE Reach(_, _)
Reach(edges, S) ==
    LET T == S \cup {e[2] : e \in {e \in edges : e[1] \in S}}
               \cup {e[1] : e \in {e \in edges : e[2] \in S}}
    IN  IF T = S THEN S ELSE Reach(edges, T)

EdgeSet(q) == {q[k] : k \in 1..Len(q)}

Components(q) == {Reach(EdgeSet(q), {v}) : v \in Points}

Connected(q) == Cardinality(Components(q)) = 1

Largest(comps) == CHOOSE c \in comps : \A d \in comps : Cardinality(d) <= Cardinality(c)

ThreeLargestProduct(comps) ==
    LET c1 == Largest(comps)
        c2 == Largest(comps \ {c1})
        c3 == Largest(comps \ {c1, c2})
    IN  Cardinality(c1) * Cardinality(c2) * Cardinality(c3)

\* the (x, y) of the first k ranked edges
RankedPairs(k) == [q \in 1..k |-> <<distances[q][2], distances[q][3]>>]

(***************************************************************************)
(* Properties of part1 (checked under SpecA)                               *)
(***************************************************************************)
\* C4: part1 calls union on the ranked edges in order, counts every call,
\* and leaves the loop right after the call that makes attempts equal K; with
\* at least K edges, union was applied to the first K ranked edges only.
C4_FirstKAttempts ==
    /\ pc # "p1_rank" =>
          /\ attempts = Len(applied)
          /\ attempts <= Len(distances)
          /\ applied = RankedPairs(attempts)
          /\ attempts <= K
    /\ pc = "p1_loop" => attempts < K
    /\ (pc \in {"p1_sizes", "done"} /\ Len(distances) >= K) => attempts = K

C4_Witness ==
    /\ pc = "done"
    /\ Len(distances) > K
    /\ Len(applied) = K
    /\ merges < K

\* C6: when part1 stops after K attempts and the graph of the first K ranked
\* edges has at least 3 components, it returns the product of the sizes of
\* the three largest components of that graph.
C6_ProductOfComponents ==
    (pc = "done" /\ attempts = K /\ Cardinality(Components(RankedPairs(K))) >= 3)
        => result = Return(ThreeLargestProduct(Components(RankedPairs(K))))

C6_Witness ==
    /\ pc = "done"
    /\ attempts = K
    /\ result.kind = "return"
    /\ result.value > BigCluster + 1

\* C7: part1 ends in an error and returns no product when K exceeds the
\* number of candidate edges or fewer than 3 components remain.
C7_ErrorNotProduct ==
    (pc = "done" /\ (K > Len(distances) \/ Cardinality(Components(applied)) < 3))
        => result.kind = "IndexError"

C7_Witness ==
    /\ pc = "done"
    /\ K > Len(distances)
    /\ Len(coordinates) >= 4
    /\ result.kind = "IndexError"

DistinctDistances ==
    \A a, b \in 1..Len(distances) : a # b => distances[a][1] # distances[b][1]

\* C10: on 5 points with distinct pairwise distances and the threshold set to
\* 1, part1 makes one union call, which leaves the sizes {2,1,1,1}, and returns 2.
C10_ThresholdOne ==
    (pc = "done" /\ Len(coordinates) = 5 /\ DistinctDistances)
        => /\ Len(applied) = 1
           /\ result = Return(2)

(***************************************************************************)
(* Properties of part2 (checked under SpecB)                               *)
(***************************************************************************)
\* part2 returned from inside the loop, at a terminal edge
StoppedAtEdge == pc = "done" /\ merges > 0 /\ circuits = 1

\* part2 left the loop with distances exhausted
Exhausted == pc = "done" /\ ~StoppedAtEdge

\* C5: circuits goes down only with a union that returned True, and part2
\* stops at the first ranked edge that brings it to 1: then n-1 unions
\* returned True, the points are one component, the ranked edges before that
\* edge do not connect them, and the result is the product of the x of the
\* edge's two points.
C5_StopsAtConnectingEdge ==
    /\ pc # "p2_rank" =>
          /\ circuits = Len(coordinates) - merges
          /\ applied = RankedPairs(Len(applied))
    /\ (pc = "p2_loop" /\ Len(coordinates) >= 2) => ~Connected(applied)
    /\ StoppedAtEdge =>
          LET e == applied[Len(applied)]
          IN  /\ merges = Len(coordinates) - 1
              /\ Connected(applied)
              /\ ~Connected(SubSeq(applied, 1, Len(applied) - 1))
              /\ \A i \in Points : RootOf(parent, i) = RootOf(parent, 0)
              /\ result = Return(coordinates[e[1] + 1][1] * coordinates[e[2] + 1][1])

C5_Witness ==
    /\ StoppedAtEdge
    /\ Len(coordinates) = 4
    /\ Len(applied) > 3
    /\ result.value < 0

\* C8: when part2 exhausts distances it ends in an error (or an outcome no
\* product of two x-coordinates can equal), not in a returned number.
C8_ExhaustedIsError == Exhausted => result.kind # "return"

\* C9: distances holds every pair i < j once, by non-decreasing distance
\* (the distance of the pair's two points), pairs of equal distance in the
\* order (i, j) of their enumeration.
C9_RankedEdges ==
    pc # "p2_rank" =>
        LET n == Len(coordinates)
            m == Len(distances)
        IN  /\ m = (n * (n - 1)) \div 2
            /\ {<<distances[k][2], distances[k][3]>> : k \in 1..m}
                  = {<<i, j>> \in Points \X Points : i < j}
            /\ \A k \in 1..m :
                  distances[k][1] = euclidean_distance(coordinates[distances[k][2] + 1],
                                                       coordinates[distances[k][3] + 1])
            /\ \A k \in 1..(m - 1) :
                  LET a == distances[k]
                      b == distances[k + 1]
                  IN  /\ a[1] <= b[1]
                      /\ a[1] = b[1] => (a[2] < b[2] \/ (a[2] = b[2] /\ a[3] < b[3]))

C9_Witness ==
    /\ pc = "p2_loop"
    /\ Len(distances) = 6
    /\ \E k \in 1..5 : distances[k][1] = distances[k + 1][1]
    /\ \E k \in 1..5 : distances[k][1] < distances[k + 1][1]
    /\ \E k \in 1..5 : distances[k][2] > distances[k + 1][2]

\* C13: with 2 or more points part2 never leaves the loop with distances
\* exhausted: it returns from inside the loop, never at "return -1".
C13_NeverFallsThrough ==
    Len(coordinates) >= 2 =>
        /\ ~(pc = "p2_loop" /\ cursor > Len(distances))
        /\ pc = "done" => StoppedAtEdge

\* part2 returned at the last ranked edge
C13_Witness ==
    /\ StoppedAtEdge
    /\ Len(coordinates) >= 2
    /\ cursor = Len(distances) + 1
    /\ result.kind = "return"

(***************************************************************************)
(* Properties of the DisjointSet under every caller (checked under         *)
(* SpecDSB)                                                                *)
(***************************************************************************)
\* the indices whose parent chain ends at r
Members(r) == {i \in DOMAIN parent : RootOf(parent, i) = r}

\* C16: the size recorded at a root is the number of indices whose parent
\* chain ends at it, the roots number n minus the unions that returned True,
\* and the circuits of part2 is the number of roots.
C16_ExactSizes ==
    /\ \A r \in Roots(parent) : size[r] = Cardinality(Members(r))
    /\ Cardinality(Roots(parent)) = Cardinality(DOMAIN parent) - merges
    /\ pc \in {"p2_loop", "done"} => circuits = Cardinality(Roots(parent))

\* part2 after three calls, one of them a no-op: a component of 3 and one of 1
C16_Witness ==
    /\ pc = "p2_loop"
    /\ Len(applied) = 3
    /\ circuits = 2
    /\ \E r \in Roots(parent) : size[r] = 3

(***************************************************************************)
(* parse_coordinates.  The text is a sequence of characters; str.split,    *)
(* str.splitlines and int are modelled on the characters of Alphabet.      *)
(***************************************************************************)
Alphabet == {"1", "-", ",", "\n"}

\* str.split(sep): the pieces between the separators, empty ones included
RECURSIVE Split(_, _)
Split(s, sep) ==
    IF \A k \in 1..Len(s) : s[k] # sep THEN <<s>>
    ELSE LET k == CHOOSE k \in 1..Len(s) :
                     s[k] = sep /\ \A l \in 1..(k - 1) : s[l] # sep
         IN  <<SubSeq(s, 1, k - 1)>> \o Split(SubSeq(s, k + 1, Len(s)), sep)

\* str.splitlines(): no line for the text after a final line break
SplitLines(s) ==
    LET parts == Split(s, "\n")
    IN  IF parts[Len(parts)] = << >> THEN SubSeq(parts, 1, Len(parts) - 1) ELSE parts

\* int(token) accepts an optional sign followed by digits
IsIntLiteral(tok) ==
    LET digits == IF tok # << >> /\ tok[1] = "-" THEN Tail(tok) ELSE tok
    IN  digits # << >> /\ \A k \in 1..Len(digits) : digits[k] = "1"

RECURSIVE DigitsValue(_)
DigitsValue(digits) ==
    IF digits = << >> THEN 0
    ELSE 10 * DigitsValue(SubSeq(digits, 1, Len(digits) - 1)) + 1

IntOf(tok) == IF tok[1] = "-" THEN 0 - DigitsValue(Tail(tok)) ELSE DigitsValue(tok)

\* tuple(map(int, line.split(','))), for a line whose fields are all integers
LineTuple(line) ==
    LET fields == Split(line, ",")
    IN  [k \in 1..Len(fields) |-> IntOf(fields[k])]

LineParses(line) ==
    LET fields == Split(line, ",")
    IN  \A k \in 1..Len(fields) : IsIntLiteral(fields[k])

\* line 83: the list of tuples, or the ValueError of the first bad int()
parse_coordinates(text) ==
    LET lines == SplitLines(text)
    IN  IF \A k \in 1..Len(lines) : LineParses(lines[k])
        THEN Return([k \in 1..Len(lines) |-> LineTuple(lines[k])])
        ELSE Raise("ValueError")

RECURSIVE Texts(_)
Texts(n) ==
    IF n = 0 THEN {<< >>}
    ELSE Texts(n - 1) \cup {Append(t, c) : t \in Texts(n - 1), c \in Alphabet}

InitP ==
    /\ \E text \in Texts(MaxData) : data = text
    /\ coordinates = << >>
    /\ LET d == DisjointSetInit(0)
       IN  parent = d.parent /\ rank = d.rank /\ size = d.size
    /\ lastCall = NoCall
    /\ merges = 0
    /\ distances = << >>
    /\ cursor = 1
    /\ attempts = 0
    /\ circuits = 0
    /\ applied = << >>
    /\ result = NoResult
    /\ pc = "parse"

\* a call parse_coordinates(data)
ParseCoordinates ==
    /\ pc = "parse"
    /\ result' = parse_coordinates(data)
    /\ coordinates' = IF result'.kind = "return" THEN result'.value ELSE coordinates
    /\ pc' = "done"
    /\ UNCHANGED <<dsVars, lastCall, merges, data, distances, cursor, attempts,
                   circuits, applied>>

NextP == ParseCoordinates

SpecP == InitP /\ [][NextP]_vars

(***************************************************************************)
(* Properties of parse_coordinates (checked under SpecP)                   *)
(***************************************************************************)
\* the line is three integers separated by commas
ThreeIntegers(line) == Len(Split(line, ",")) = 3 /\ LineParses(line)

\* C12: parse_coordinates fails, returning no points, when a line of the
\* input is not three integers; lines of two or of four integers included.
C12_ParseError ==
    (pc = "done" /\ \E k \in 1..Len(SplitLines(data)) : ~ThreeIntegers(SplitLines(data)[k]))
        => result.kind # "return"

====
